---- MODULE Spec2Model ----
(***************************************************************************)
(* Model of src/main.cpp: an AM transmitter for a Cortex-M board.  main()  *)
(* builds a buffer of NOP words closed by one return word, measures how    *)
(* long a burst of carrier periods takes for every position of the return  *)
(* word, picks the position whose frequency is closest to a table entry,   *)
(* times one more burst to derive a repeat count and then broadcasts the   *)
(* ADC samples forever.                                                    *)
(*                                                                         *)
(* Numbers.  TLC's integers are 32 bits wide and the source computes       *)
(* 100000 * 1000000.0f, so the model runs the same formulas on scaled-down *)
(* numbers.  A float is modelled as an exact fraction [n |-> , d |-> ]     *)
(* with n >= 0; d = 0 is +infinity, the value a float division by zero     *)
(* yields.  Rounding of float32 is not modelled.                           *)
(***************************************************************************)
EXTENDS Integers, Sequences, FiniteSets, TLC

(***************************************************************************)
(* Scale of the model (the source's value is given with each).             *)
(***************************************************************************)
\* length of the instruction buffer (80 in the source)
MAX_OPCODES == 4
\* periods per measuring burst (100000 in the source)
PERIODS_MEASURING == 1
\* periods of the testing burst (250000 in the source)
PERIODS_TESTING == 2
\* timer ticks per second, the literal 1000000.0f
US_PER_SECOND == 9
\* sample_rate (22050 in the source)
SAMPLE_RATE == 2
\* desired (558000.0f in the source)
DESIRED == 3
\* the timer and the measurements are unsigned and wrap (2^32 in the source)
TIMER_MOD == 3
\* largest ADC result (65535 in the source)
ADC_MAX == 1

\* the table of frequencies as written in the source, before the adjustment
\* (80 entries from 531000 to 1215000 in the source, 981000 twice)
FREQUENCY_TABLE == <<3, 5, 5>>

NOP == "BF00"
RET == "4770"

MEASURING == 2
TESTING == 1
BROADCASTING == 0

\* a slot of measurements[] that no statement has written yet
UNINIT == -1

Slots == 0 .. (MAX_OPCODES - 1)
TimerValues == 0 .. (TIMER_MOD - 1)
AdcValues == 0 .. ADC_MAX

(***************************************************************************)
(* Float arithmetic on fractions.                                          *)
(***************************************************************************)
Rat(num, den) == [n |-> num, d |-> den]

Abs(x) == IF x < 0 THEN -x ELSE x

\* a < b on floats; n/0 is +infinity and is below nothing
Lt(a, b) == a.n * b.d < b.n * a.d

Eq(a, b) == a.n * b.d = b.n * a.d /\ (a.d = 0) = (b.d = 0)

IsInf(a) == a.d = 0

\* periods * 1000000.0f / elapsed
Achieved(per, elapsed) == Rat(per * US_PER_SECOND, elapsed)

\* abs(freq - f), abs being the float overload
AbsDiff(fr, f) ==
    IF fr.d = 0 THEN Rat(1, 0)
    ELSE Rat(Abs(fr.n * f.d - f.n * fr.d), fr.d * f.d)

frequencies_n == Len(FREQUENCY_TABLE)

\* frequencies[i] -= sample_rate / 2.0f
frequencies ==
    [j \in 0 .. (frequencies_n - 1) |->
        Rat(2 * FREQUENCY_TABLE[j + 1] - SAMPLE_RATE, 2)]

measure_limit == MAX_OPCODES - 1


(***************************************************************************)
(* The instruction buffer.                                                 *)
(***************************************************************************)
Exec_countsReturn(ops) ==
    IF \E s \in Slots : ops[s] = RET
    THEN 1 + CHOOSE s \in Slots : ops[s] = RET /\ \A t \in 0 .. (s - 1) : ops[t] = NOP
    ELSE -1

\* exec(opcodes): control enters at slot 0, runs the NOPs and leaves at the
\* first return word; the result is the number of NOPs run, -1 when the
\* buffer holds no return word and control runs off its end
Exec(ops) ==
    IF \E s \in Slots : ops[s] = RET
    THEN CHOOSE s \in Slots : ops[s] = RET /\ \A t \in 0 .. (s - 1) : ops[t] = NOP
    ELSE -1

\* variant: the old slot keeps its return word
MoveReturn_keepOld(ops, from, to) == [ops EXCEPT ![to] = RET]

\* opcodes[from] = 0xBF00; opcodes[to] = 0x4770;
MoveReturn(ops, from, to) == [[ops EXCEPT ![from] = NOP] EXCEPT ![to] = RET]

(***************************************************************************)
(* The evaluation pass, lines 184-200.                                     *)
(***************************************************************************)
\* the outer loop runs while i < measure_limit - 1
ScanOffsetsFor(limit) == limit - 1

ScanOffsets == ScanOffsetsFor(measure_limit)

\* variant: if(diff <= best_diff)
Accepts_farther(df, bd) == Lt(bd, df)

Accepts_orEqual(df, bd) == Lt(df, bd) \/ Eq(df, bd)

\* if(diff < best_diff)
Accepts(df, bd) == Lt(df, bd)

\* lines 192-193 for a table tab and ups timer ticks per second:
\* abs(periods * ups / measurements[i] - tab[j])
PairDiffIn(tab, ups, meas, per, i, j) == AbsDiff(Rat(per * ups, meas[i]), tab[j])

\* the body of the inner loop for the pair (i, j), lines 192-198
EvalStepIn(best, tab, ups, meas, per, i, j) ==
    IF Accepts(PairDiffIn(tab, ups, meas, per, i, j), best.diff)
    THEN [diff |-> PairDiffIn(tab, ups, meas, per, i, j), frequency |-> j, index |-> i]
    ELSE best

RECURSIVE ScanIn(_, _, _, _, _, _, _, _)
\* the two nested loops, lines 184-200, from the k-th pair on, over nOff
\* offsets and the n entries of tab (b ranges over the one value of best,
\* so that it is computed once per pair)
ScanIn(best, tab, n, nOff, ups, meas, per, k) ==
    IF k >= nOff * n THEN best
    ELSE CHOOSE r \in {ScanIn(EvalStepIn(b, tab, ups, meas, per, k \div n, k % n),
                              tab, n, nOff, ups, meas, per, k + 1) : b \in {best}} : TRUE

\* the difference of the pair (i, j): abs(periods * 1e6 / measurements[i] - frequencies[j])
PairDiff(meas, per, i, j) == AbsDiff(Achieved(per, meas[i]), frequencies[j])

\* the body of the inner loop for the pair (i, j)
EvalStep(best, meas, per, i, j) ==
    EvalStepIn(best, frequencies, US_PER_SECOND, meas, per, i, j)

\* the k-th pair of the scan: i outer, j inner
ScanI(k) == k \div frequencies_n
ScanJ(k) == k % frequencies_n

\* the two nested loops of main from the k-th pair on
EvalFrom(best, meas, per, k) ==
    ScanIn(best, frequencies, frequencies_n, ScanOffsets, US_PER_SECOND, meas, per, k)

\* variant: the return word stays where the measurement left it
ActiveAfterPass_stay(bestIndex, lastIndex) == lastIndex

\* variant: the pass starts one iteration early
PassDue_late(idx) == idx = MAX_OPCODES

PassDue_early(idx) == idx = measure_limit - 1

\* if(index == measure_limit)
PassDue(idx) == idx = measure_limit

\* the offset the return word is moved to after the pass:
\* opcodes[index = best_index] = 0x4770
ActiveAfterPass(bestIndex, lastIndex) == bestIndex

(***************************************************************************)
(* TESTING.                                                                *)
(***************************************************************************)
\* variant: the factor 0.5f is left out
RepeatCounts_noHalf(fr, sr) ==
    IF fr.d = 0 THEN 0 .. PERIODS_TESTING
    ELSE {fr.n \div (sr * fr.d)}

\* (int)(0.5f * freq / sample_rate); converting an infinite float to int is
\* undefined, any count may come out
RepeatCounts(fr, sr) ==
    IF fr.d = 0 THEN 0 .. PERIODS_TESTING
    ELSE {fr.n \div (2 * sr * fr.d)}

Reported_beforeTuning(old, new) == old

\* the periods argument of PC.printf: periods is read after its assignment,
\* old being its value before and new its value after
Reported(old, new) == new

NextOffset_skip(idx) == idx + 2

\* the offset of the next measurement: ++index
NextOffset(idx) == idx + 1

MeasuredSlot_next(idx) == idx + 1

\* the slot line 175 stores the elapsed time in: measurements[index]
MeasuredSlot(idx) == idx

\* the slots of measurements[] the pass reads: measurements[i] in the loops
\* and measurements[index] after them, index being idx
PassReads(idx) == (0 .. (ScanOffsets - 1)) \cup {idx}

InitialBestDiff_adjusted == Rat(2 * DESIRED - SAMPLE_RATE, 2)

\* best_diff = desired
InitialBestDiff == Rat(DESIRED, 1)

\* the values a read of measurements[k] can yield: a slot never written
\* holds whatever the stack held
ReadMeasurement(meas, k) == IF meas[k] = UNINIT THEN TimerValues ELSE {meas[k]}

\* end - start on unsigned int
Elapsed(e, s) == (e - s) % TIMER_MOD

(***************************************************************************)
(* State.                                                                  *)
(***************************************************************************)
VARIABLES
    opcodes,        \* static uint16_t opcodes[MAX_OPCODES]
    measurements,   \* unsigned int measurements[MAX_OPCODES]
    index,          \* where the return word is
    read_state,     \* ADC state 0..3
    ready_state,    \* MEASURING, TESTING, BROADCASTING
    periods,        \* periods per burst
    adc_value,      \* last ADC value read
    start,          \* timer reading before the burst
    end,            \* timer reading after the burst
    best_index,
    best_frequency,
    desired,
    best_diff,
    freq,
    pc,             \* position in the loop body: "adc", "switch", "burst"
    burst_i,        \* the i of for(unsigned int i=periods; i; i--)
    tx_value,       \* the argument of the last transmit call
    nops,           \* NOPs run by the last exec(opcodes)
    sent,           \* transmit calls made in this loop iteration
    m_iters,        \* loop iterations that took case MEASURING
    t_iters,        \* loop iterations that took case TESTING
    printed,        \* number of PC.printf calls made
    reported,       \* the periods argument of the last PC.printf
    mlog,           \* one record per measurement stored, in order
    unwritten_reads \* slots of measurements[] read before any write to them

vars == <<opcodes, measurements, index, read_state, ready_state, periods,
          adc_value, start, end, best_index, best_frequency, desired,
          best_diff, freq, pc, burst_i, tx_value, nops, sent, m_iters, t_iters,
          printed, reported, mlog, unwritten_reads>>

calib == <<best_index, best_frequency, desired, best_diff>>
adc == <<read_state, adc_value>>
counts == <<m_iters, t_iters>>
report == <<printed, reported>>
reads == <<mlog, unwritten_reads>>

Init ==
    /\ opcodes = [s \in Slots |-> IF s = 0 THEN RET ELSE NOP]
    /\ measurements = [s \in Slots |-> UNINIT]
    /\ index = 0
    /\ read_state = 0
    /\ ready_state = MEASURING
    /\ periods = PERIODS_MEASURING
    /\ adc_value = 0
    /\ start = 0
    /\ end = 0
    /\ best_index = 0
    /\ best_frequency = 0
    /\ desired = Rat(DESIRED, 1)
    /\ best_diff = InitialBestDiff
    /\ freq = Rat(0, 1)
    /\ pc = "adc"
    /\ burst_i = 0
    /\ tx_value = 0
    /\ nops = 0
    /\ sent = 0
    /\ m_iters = 0
    /\ t_iters = 0
    /\ printed = 0
    /\ reported = 0
    /\ mlog = <<>>
    /\ unwritten_reads = {}

(***************************************************************************)
(* The ADC state machine, one case per loop iteration.                     *)
(***************************************************************************)
AdcStart_twoSteps ==
    /\ pc = "adc" /\ read_state = 0
    /\ read_state' = 2
    /\ pc' = "switch"
    /\ UNCHANGED <<opcodes, measurements, index, ready_state, periods, adc_value,
                   start, end, calib, freq, burst_i, tx_value, nops, sent, counts, report, reads>>

\* case 0: start the conversion
AdcStart ==
    /\ pc = "adc" /\ read_state = 0
    /\ read_state' = 1
    /\ pc' = "switch"
    /\ UNCHANGED <<opcodes, measurements, index, ready_state, periods, adc_value,
                   start, end, calib, freq, burst_i, tx_value, nops, sent, counts, report, reads>>

\* case 1: wait until ADACT is clear
AdcWaitActive ==
    /\ pc = "adc" /\ read_state = 1
    /\ \E adact \in BOOLEAN : read_state' = IF ~adact THEN 2 ELSE 1
    /\ pc' = "switch"
    /\ UNCHANGED <<opcodes, measurements, index, ready_state, periods, adc_value,
                   start, end, calib, freq, burst_i, tx_value, nops, sent, counts, report, reads>>

\* variant: the result is taken as soon as COCO is set
AdcWaitComplete_latches ==
    /\ pc = "adc" /\ read_state = 2
    /\ \E coco \in BOOLEAN :
        IF coco THEN /\ \E r \in AdcValues : adc_value' = r
                     /\ read_state' = 0
                ELSE UNCHANGED adc
    /\ pc' = "switch"
    /\ UNCHANGED <<opcodes, measurements, index, ready_state, periods,
                   start, end, calib, freq, burst_i, tx_value, nops, sent, counts, report, reads>>

\* case 2: wait until COCO is set
AdcWaitComplete ==
    /\ pc = "adc" /\ read_state = 2
    /\ \E coco \in BOOLEAN : read_state' = IF coco THEN 3 ELSE 2
    /\ pc' = "switch"
    /\ UNCHANGED <<opcodes, measurements, index, ready_state, periods, adc_value,
                   start, end, calib, freq, burst_i, tx_value, nops, sent, counts, report, reads>>

\* case 3: keep the result
AdcLatch ==
    /\ pc = "adc" /\ read_state = 3
    /\ \E r \in AdcValues : adc_value' = r
    /\ read_state' = 0
    /\ pc' = "switch"
    /\ UNCHANGED <<opcodes, measurements, index, ready_state, periods,
                   start, end, calib, freq, burst_i, tx_value, nops, sent, counts, report, reads>>

(***************************************************************************)
(* The bursts.                                                             *)
(***************************************************************************)
\* case MEASURING: start = timer.read_us(); and the loop initialisation
MeasuringBegin ==
    /\ pc = "switch" /\ ready_state = MEASURING
    /\ \E t \in TimerValues : start' = t
    /\ burst_i' = periods
    /\ sent' = 0
    /\ pc' = "burst"
    /\ UNCHANGED <<opcodes, measurements, index, adc, ready_state, periods,
                   end, calib, freq, tx_value, nops, counts, report, reads>>

\* case TESTING: start = timer.read_us(); and the loop initialisation
TestingBegin ==
    /\ pc = "switch" /\ ready_state = TESTING
    /\ \E t \in TimerValues : start' = t
    /\ burst_i' = periods
    /\ sent' = 0
    /\ pc' = "burst"
    /\ UNCHANGED <<opcodes, measurements, index, adc, ready_state, periods,
                   end, calib, freq, tx_value, nops, counts, report, reads>>

\* variant: the burst keeps the length of the testing burst
BroadcastBegin_tuningCount ==
    /\ pc = "switch" /\ ready_state = BROADCASTING
    /\ burst_i' = PERIODS_TESTING
    /\ sent' = 0
    /\ pc' = "burst"
    /\ UNCHANGED <<opcodes, measurements, index, adc, ready_state, periods,
                   start, end, calib, freq, tx_value, nops, counts, report, reads>>

\* case BROADCASTING: the loop initialisation i = periods
BroadcastBegin ==
    /\ pc = "switch" /\ ready_state = BROADCASTING
    /\ burst_i' = periods
    /\ sent' = 0
    /\ pc' = "burst"
    /\ UNCHANGED <<opcodes, measurements, index, adc, ready_state, periods,
                   start, end, calib, freq, tx_value, nops, counts, report, reads>>

\* one transmit(adc_value) of a burst, WAVEFORM == SQUARE:
\* dac.write_u16(value); exec(opcodes); dac.write_u16(0); exec(opcodes);
Transmit ==
    /\ pc = "burst" /\ burst_i > 0
    /\ tx_value' = adc_value
    /\ nops' = Exec(opcodes)
    /\ sent' = sent + 1
    /\ burst_i' = burst_i - 1
    /\ UNCHANGED <<opcodes, measurements, index, adc, ready_state, periods,
                   start, end, calib, freq, pc, counts, report, reads>>


\* case MEASURING after the burst: the measurement is stored and the return
\* word advanced; when index reaches measure_limit the evaluation pass runs
\* and the state becomes TESTING
MeasuringEnd ==
    /\ pc = "burst" /\ burst_i = 0 /\ ready_state = MEASURING
    /\ \E t \in TimerValues :
        LET meas == [measurements EXCEPT ![MeasuredSlot(index)] = Elapsed(t, start)]
            idx == NextOffset(index)
            moved == MoveReturn(opcodes, index, idx)
            best == EvalFrom([diff |-> best_diff, frequency |-> best_frequency,
                              index |-> best_index], meas, periods, 0)
        IN  /\ end' = t
            /\ measurements' = meas
            /\ IF PassDue(idx)
               THEN /\ best_diff' = best.diff
                    /\ best_frequency' = best.frequency
                    /\ best_index' = best.index
                    \* freq = periods * 1000000.0f / measurements[index];
                    /\ \E g \in ReadMeasurement(meas, idx) : freq' = Achieved(periods, g)
                    /\ periods' = PERIODS_TESTING
                    /\ index' = ActiveAfterPass(best.index, idx)
                    /\ opcodes' = MoveReturn(moved, idx, index')
                    /\ desired' = frequencies[best.frequency]
                    /\ ready_state' = TESTING
                    /\ unwritten_reads' = unwritten_reads
                           \cup {k \in PassReads(idx) : meas[k] = UNINIT}
               ELSE /\ index' = idx
                    /\ opcodes' = moved
                    /\ UNCHANGED <<calib, freq, periods, ready_state, unwritten_reads>>
    /\ mlog' = Append(mlog, [slot |-> MeasuredSlot(index), ret |-> nops, burst |-> sent])
    /\ pc' = "adc"
    /\ m_iters' = m_iters + 1
    /\ UNCHANGED <<adc, start, burst_i, tx_value, nops, sent, t_iters, report>>

\* variant: TESTING hands back to MEASURING
TestingEnd_remeasure ==
    /\ pc = "burst" /\ burst_i = 0 /\ ready_state = TESTING
    /\ \E t \in TimerValues :
        /\ end' = t
        /\ freq' = Achieved(periods, Elapsed(t, start))
    /\ periods' \in RepeatCounts(freq', SAMPLE_RATE)
    /\ ready_state' = MEASURING
    /\ pc' = "adc"
    /\ t_iters' = t_iters + 1
    \* PC.printf(..., periods) after periods was assigned
    /\ printed' = printed + 1
    /\ reported' = Reported(periods, periods')
    /\ UNCHANGED <<opcodes, measurements, index, adc, start, calib,
                   burst_i, tx_value, nops, sent, m_iters, reads>>

\* case TESTING after the burst: the repeat count is derived from the
\* measured frequency and the state becomes BROADCASTING
TestingEnd ==
    /\ pc = "burst" /\ burst_i = 0 /\ ready_state = TESTING
    /\ \E t \in TimerValues :
        /\ end' = t
        /\ freq' = Achieved(periods, Elapsed(t, start))
    /\ periods' \in RepeatCounts(freq', SAMPLE_RATE)
    /\ ready_state' = BROADCASTING
    /\ pc' = "adc"
    /\ t_iters' = t_iters + 1
    \* PC.printf(..., periods) after periods was assigned
    /\ printed' = printed + 1
    /\ reported' = Reported(periods, periods')
    /\ UNCHANGED <<opcodes, measurements, index, adc, start, calib,
                   burst_i, tx_value, nops, sent, m_iters, reads>>

\* case BROADCASTING after the burst: break
BroadcastEnd ==
    /\ pc = "burst" /\ burst_i = 0 /\ ready_state = BROADCASTING
    /\ pc' = "adc"
    /\ UNCHANGED <<opcodes, measurements, index, adc, ready_state, periods,
                   start, end, calib, freq, burst_i, tx_value, nops, sent, counts, report, reads>>

Next ==
    \/ AdcStart
    \/ AdcWaitActive
    \/ AdcWaitComplete
    \/ AdcLatch
    \/ MeasuringBegin
    \/ TestingBegin
    \/ BroadcastBegin
    \/ Transmit
    \/ MeasuringEnd
    \/ TestingEnd
    \/ BroadcastEnd

Spec == Init /\ [][Next]_vars

\* the loop while(true) keeps running: whatever step is next is taken
FairSpec == Spec /\ WF_vars(Next)

TypeOK ==
    /\ opcodes \in [Slots -> {NOP, RET}]
    /\ measurements \in [Slots -> TimerValues \cup {UNINIT}]
    /\ index \in Slots
    /\ read_state \in 0 .. 3
    /\ ready_state \in {MEASURING, TESTING, BROADCASTING}
    /\ periods \in Nat
    /\ adc_value \in AdcValues
    /\ start \in TimerValues /\ end \in TimerValues
    /\ best_index \in Slots
    /\ best_frequency \in 0 .. (frequencies_n - 1)
    /\ pc \in {"adc", "switch", "burst"}
    /\ burst_i \in Nat /\ sent \in Nat
    /\ printed \in Nat /\ reported \in Nat
    /\ unwritten_reads \subseteq Slots
    /\ mlog \in Seq([slot : Slots, ret : Slots \cup {-1}, burst : Nat])


(***************************************************************************)
(* Properties.                                                             *)
(***************************************************************************)
\* the pairs (i, j) the evaluation pass is specified to examine
AllOffsets == 0 .. (measure_limit - 1)
Targets == 0 .. (frequencies_n - 1)

\* the offsets the loops of the pass run over
ScannedOffsets == 0 .. (measure_limit - 2)

\* the pair (i, j) comes before the pair (k, l) in the scan
Before(i, j, k, l) == i < k \/ (i = k /\ j < l)

\* the difference of the pair (i, j), from the stored measurements and the
\* burst length of MEASURING
DiffOf(i, j) == PairDiff(measurements, PERIODS_MEASURING, i, j)

\* the seed of best_diff
Seed == Rat(DESIRED, 1)

\* the pass is over
Evaluated == ready_state # MEASURING

\* no pair of the scan has a difference below the seed
SeedUnbeaten == \A i \in ScannedOffsets, j \in Targets : ~Lt(DiffOf(i, j), Seed)

\* C1: ready_state starts at MEASURING and every step leaves it alone or
\* takes it from MEASURING to TESTING or from TESTING to BROADCASTING; no
\* step leaves BROADCASTING or returns to MEASURING.
C1_StateOrder ==
    /\ ready_state = MEASURING
    /\ [][\/ ready_state' = ready_state
          \/ ready_state = MEASURING /\ ready_state' = TESTING
          \/ ready_state = TESTING /\ ready_state' = BROADCASTING]_vars

\* C1 witness: the last state of the order has been reached and a burst runs
C1_Witness == ready_state = BROADCASTING /\ pc = "burst" /\ t_iters = 1

\* steps taken in the current loop iteration
IterationSteps == IF pc = "adc" THEN 0 ELSE IF pc = "switch" THEN 1 ELSE 2 + sent

\* steps of the loop left before ready_state is BROADCASTING
StepsLeft ==
    IF ready_state = MEASURING
    THEN (measure_limit - m_iters) * (PERIODS_MEASURING + 3)
             + (PERIODS_TESTING + 3) - IterationSteps
    ELSE IF ready_state = TESTING THEN (PERIODS_TESTING + 3) - IterationSteps
    ELSE 0

\* C2: BROADCASTING is reached: before it a step of the loop is always
\* possible and every step brings it one step nearer (whatever the flags and
\* the timer readings are), and it is reached after exactly measure_limit
\* loop iterations in MEASURING followed by exactly one in TESTING.
C2_ReachesBroadcasting ==
    /\ [](ready_state # BROADCASTING => (StepsLeft > 0 /\ ENABLED Next))
    /\ [][ready_state # BROADCASTING => StepsLeft' = StepsLeft - 1]_vars
    /\ [](ready_state = BROADCASTING => (m_iters = measure_limit /\ t_iters = 1))
    /\ [](ready_state = TESTING => (m_iters = measure_limit /\ t_iters = 0))
    /\ [](ready_state = MEASURING => (m_iters < measure_limit /\ t_iters = 0))

\* C2 witness: BROADCASTING after a run with different elapsed times and a
\* latched sample
C2_Witness ==
    /\ ready_state = BROADCASTING
    /\ m_iters = measure_limit /\ t_iters = 1
    /\ measurements[0] # measurements[1]
    /\ adc_value # 0

\* C3: whenever a transmit is about to execute the buffer, the return word
\* is at slot index and every other slot holds the no-op word.
C3_OneReturn ==
    (pc = "burst" /\ burst_i > 0) =>
        /\ opcodes[index] = RET
        /\ \A s \in Slots \ {index} : opcodes[s] = NOP

\* C3 witness: a burst of TESTING with the return word moved off slot 0,
\* and one of MEASURING, are about to execute the buffer
C3_Witness ==
    /\ pc = "burst" /\ burst_i > 0
    /\ index > 0
    /\ ready_state \in {TESTING, MEASURING}
    /\ sent > 0

\* every offset was measured with a nonzero elapsed time
NoZeroMeasured == \A i \in AllOffsets : measurements[i] # 0

\* C4: after the pass (best_index, best_frequency) minimises the difference
\* over every offset in [0, measure_limit) and every target.  Stated for the
\* runs in which no elapsed time is zero and some pair is below the seed, so
\* that neither a division by zero nor the seed decides it.
C4_FullCrossProduct ==
    (/\ Evaluated
     /\ NoZeroMeasured
     /\ \E i \in AllOffsets, j \in Targets : Lt(DiffOf(i, j), Seed)) =>
        \A i \in AllOffsets, j \in Targets :
            ~Lt(DiffOf(i, j), DiffOf(best_index, best_frequency))

C6_KeepsLastTried ==
    (Evaluated /\ SeedUnbeaten /\ NoZeroMeasured) =>
        index \in {measure_limit - 1, measure_limit}

\* C6 amended: when no scanned pair is below the seed, best_index and
\* best_frequency keep their initial 0 and the active offset used in TESTING
\* and BROADCASTING is slot 0, the first offset measured.
C6_FallsBackToFirst ==
    (Evaluated /\ SeedUnbeaten) =>
        /\ index = 0 /\ best_index = 0 /\ best_frequency = 0
        /\ Eq(best_diff, Seed)
        /\ opcodes[0] = RET

\* C6 witness: broadcasting after a pass in which no pair beat the seed,
\* with finite differences
C6_Witness ==
    /\ ready_state = BROADCASTING
    /\ SeedUnbeaten
    /\ NoZeroMeasured
    /\ pc = "burst" /\ sent > 0

\* C7: no frequency is computed from a zero elapsed time on the way to
\* BROADCASTING: neither from a scanned measurement nor from end - start.
C7_ZeroGuarded ==
    ready_state = BROADCASTING =>
        /\ ~IsInf(freq)
        /\ \A i \in ScannedOffsets : measurements[i] # 0

\* C8: with a nonzero elapsed time of the testing burst, the repeat count
\* in BROADCASTING is floor(0.5 * achieved / sample_rate) for
\* achieved = (periods of the testing burst) * 1000000 / (end - start);
\* and achieved = 558000 with sample_rate = 22050 gives 12.
C8_RepeatCount ==
    /\ (ready_state = BROADCASTING /\ Elapsed(end, start) # 0) =>
          /\ freq = Rat(PERIODS_TESTING * US_PER_SECOND, Elapsed(end, start))
          /\ 2 * SAMPLE_RATE * Elapsed(end, start) * periods
                <= PERIODS_TESTING * US_PER_SECOND
          /\ PERIODS_TESTING * US_PER_SECOND
                < 2 * SAMPLE_RATE * Elapsed(end, start) * (periods + 1)
    /\ (ready_state = BROADCASTING) => RepeatCounts(Rat(558000, 1), 22050) = {12}

\* C8 witness: BROADCASTING with a repeat count that is a proper floor
C8_Witness ==
    /\ ready_state = BROADCASTING
    /\ Elapsed(end, start) # 0
    /\ periods > 0
    /\ 2 * SAMPLE_RATE * Elapsed(end, start) * periods < PERIODS_TESTING * US_PER_SECOND

\* C9: the ADC machine starts in state 0 with adc_value 0; read_state only
\* ever moves to its successor in 0 -> 1 -> 2 -> 3 -> 0, an ADC step in
\* state 0 or 3 always moves, and adc_value changes only in the step from
\* state 3 to state 0.
C9_AdcCycle ==
    /\ read_state = 0 /\ adc_value = 0
    /\ [][/\ read_state' # read_state => read_state' = (read_state + 1) % 4
          /\ (pc = "adc" /\ read_state \in {0, 3}) => read_state' # read_state
          /\ adc_value' # adc_value => (read_state = 3 /\ read_state' = 0)]_vars

\* C9 witness: a second conversion is under way after a latch
C9_Witness == adc_value # 0 /\ read_state = 2

\* C10: once ready_state is BROADCASTING no step changes periods, index or
\* the buffer, every transmit is given the current adc_value, and a loop
\* iteration ends after exactly periods transmits.
C10_BroadcastFrame ==
    [][ready_state = BROADCASTING =>
          /\ periods' = periods /\ index' = index /\ opcodes' = opcodes
          /\ sent' = sent + 1 => tx_value' = adc_value
          /\ (pc = "burst" /\ pc' = "adc") => sent = periods]_vars

\* C10 witness: a broadcast burst of periods transmits of a latched sample
\* is complete
C10_Witness ==
    /\ ready_state = BROADCASTING
    /\ pc = "burst" /\ burst_i = 0
    /\ sent = periods /\ sent > 1
    /\ tx_value # 0 /\ tx_value = adc_value

\* C11 as stated: the report line is printed exactly once, in the step that
\* changes ready_state from MEASURING to TESTING.
C11_ReportAtHandOff ==
    [][printed' # printed =>
          (ready_state = MEASURING /\ ready_state' = TESTING)]_vars

\* C11 amended: the report line is printed exactly once, in the step of
\* TESTING that changes ready_state to BROADCASTING, and it carries the
\* repeat count that step derived, which is the one every broadcast uses.
C11_ReportAtBroadcastStart ==
    /\ printed = 0
    /\ [][printed' # printed =>
            /\ ready_state = TESTING /\ ready_state' = BROADCASTING
            /\ printed' = printed + 1
            /\ reported' = periods']_vars
    /\ [](printed = IF ready_state = BROADCASTING THEN 1 ELSE 0)
    /\ [](ready_state = BROADCASTING => reported = periods)

\* C11 witness: a broadcast burst runs after the one report, whose repeat
\* count differs from the count of the testing burst
C11_Witness ==
    /\ ready_state = BROADCASTING /\ pc = "burst"
    /\ printed = 1
    /\ reported = periods /\ reported > 0 /\ reported # PERIODS_TESTING

\* The scenario of C12 in kHz and ticks of 10 us, so that every product
\* stays below 2^31: burst count 100000, measure_limit 10, elapsed times
\* 100, 110, ..., 190 us for the offsets 0..9, the one target 900000 Hz and
\* the seed 558000 Hz; 100000 ticks per second over 1000 Hz per kHz.
Scenario ==
    [periods |-> 100000,
     limit   |-> 10,
     ups     |-> 100,
     meas    |-> [i \in 0..9 |-> 10 + i],
     table   |-> [j \in 0..0 |-> Rat(900, 1)],
     seed    |-> Rat(558, 1)]

\* the difference of offset i of the scenario
ScenarioDiff(i) ==
    PairDiffIn(Scenario.table, Scenario.ups, Scenario.meas, Scenario.periods, i, 0)

\* the outcome of the evaluation loops on the scenario
ScenarioBest ==
    ScanIn([diff |-> Scenario.seed, frequency |-> 0, index |-> 0],
           Scenario.table, 1, ScanOffsetsFor(Scenario.limit),
           Scenario.ups, Scenario.meas, Scenario.periods, 0)

\* the active offset after the pass on the scenario
ScenarioActive == ActiveAfterPass(ScenarioBest.index, Scenario.limit)

\* C12 as stated: on the scenario the pass selects offset 9, whose elapsed
\* time of 190 us is the closest to the target, and that offset is active
\* after the pass.
C12_SelectsClosest ==
    Evaluated =>
        /\ \A i \in 0..9 : ~Lt(ScenarioDiff(i), ScenarioDiff(9))
        /\ ScenarioActive = 9

\* C12 amended: on the scenario offset 9 is the closest to the target, but
\* the difference of none of the ten offsets is below the seed, so nothing
\* is accepted and offset 0 is active after the pass.
C12_ScenarioKeepsFirst ==
    Evaluated =>
        /\ \A i \in 0..9 : ~Lt(ScenarioDiff(i), ScenarioDiff(9))
        /\ \A i \in 0..9 : ~Lt(ScenarioDiff(i), Scenario.seed)
        /\ ScenarioBest = [diff |-> Scenario.seed, frequency |-> 0, index |-> 0]
        /\ ScenarioActive = 0

\* C12 witness: a pass of the program over rising elapsed times in which
\* the last measured offset was the closest to a target and no pair beat
\* the seed has left offset 0 active
C12_Witness ==
    /\ Evaluated /\ NoZeroMeasured /\ SeedUnbeaten
    /\ measurements[0] < measurements[measure_limit - 1]
    /\ \A i \in AllOffsets : ~Lt(DiffOf(i, 0), DiffOf(measure_limit - 1, 0))
    /\ index = 0 /\ Exec(opcodes) = 0
    /\ ScenarioActive = 0

\* C13: the measurements are stored one per MEASURING iteration, for the
\* offsets 0, 1, 2, ... in this order, each after a burst of the measuring
\* count that ran with the return word at the offset's slot; when the pass
\* has run every offset in [0, measure_limit) was stored exactly once.
C13_MeasurementsComplete ==
    /\ \A k \in 1..Len(mlog) :
          mlog[k] = [slot |-> k - 1, ret |-> k - 1, burst |-> PERIODS_MEASURING]
    /\ ready_state = MEASURING => Len(mlog) = index
    /\ Evaluated =>
          /\ Len(mlog) = measure_limit
          /\ \A i \in AllOffsets : measurements[i] \in TimerValues

\* C13 witness: the pass has just run, after measure_limit stored
\* measurements that are not all equal
C13_Witness ==
    /\ ready_state = TESTING /\ pc = "adc" /\ t_iters = 0
    /\ Len(mlog) = measure_limit
    /\ mlog[measure_limit].slot = measure_limit - 1
    /\ measurements[0] # measurements[measure_limit - 1]

\* C14: index starts at 0 and changes only in the step that ends a MEASURING
\* iteration: every such step that stays in MEASURING adds one, and the one
\* that runs the pass, entered with index + 1 = measure_limit, sets it to
\* best_index; no ADC step and no step of TESTING or BROADCASTING changes
\* it, and after the pass the return word is at slot best_index with a
\* no-op in every other slot.
C14_ActiveOffset ==
    /\ index = 0
    /\ [][/\ index' # index => (ready_state = MEASURING /\ pc = "burst" /\ pc' = "adc")
          /\ (m_iters' # m_iters /\ ready_state' = MEASURING) => index' = index + 1
          /\ (m_iters' # m_iters /\ ready_state' # MEASURING) =>
                (index + 1 = measure_limit /\ index' = best_index')
          /\ ready_state # MEASURING => best_index' = best_index]_vars
    /\ [](Evaluated =>
            /\ index = best_index
            /\ \A k \in Slots : opcodes[k] = IF k = best_index THEN RET ELSE NOP)

\* C14 witness: TESTING runs a burst at a best offset other than 0, the
\* return word there and no-ops elsewhere, after measure_limit increments
C14_Witness ==
    /\ ready_state = TESTING /\ pc = "burst"
    /\ m_iters = measure_limit
    /\ index = best_index /\ index > 0
    /\ opcodes[index] = RET /\ opcodes[0] = NOP /\ opcodes[measure_limit] = NOP

\* C15: the step from MEASURING to TESTING sets periods to a count smaller
\* than the count of the measuring bursts.
C15_TuningCountSmaller ==
    [][(ready_state = MEASURING /\ ready_state' = TESTING) => periods' < periods]_vars

\* the desired frequency less half the sample rate, the adjustment of the table
AdjustedSeed == Rat(2 * DESIRED - SAMPLE_RATE, 2)

\* C16 as stated: during MEASURING the seed of best_diff is the desired
\* frequency less half the sample rate.
C16_SeedAdjusted ==
    ready_state = MEASURING => Eq(best_diff, AdjustedSeed)

\* C16 amended: during MEASURING best_diff is the desired frequency itself,
\* without the adjustment, and best_index and best_frequency are 0; after the
\* pass either no scanned pair is strictly below that seed and the three are
\* as they were, or best_diff is strictly below the seed and is the
\* difference of the pair (best_index, best_frequency).
C16_SeedIsDesired ==
    /\ ready_state = MEASURING =>
          /\ Eq(best_diff, Seed) /\ ~Eq(best_diff, AdjustedSeed)
          /\ best_index = 0 /\ best_frequency = 0
    /\ Evaluated =>
          IF SeedUnbeaten
          THEN Eq(best_diff, Seed) /\ best_index = 0 /\ best_frequency = 0
          ELSE /\ Lt(best_diff, Seed)
               /\ best_index \in ScannedOffsets /\ best_frequency \in Targets
               /\ Eq(best_diff, DiffOf(best_index, best_frequency))

\* C16 witness: the pass accepted a pair below the seed although another
\* scanned pair was not below it
C16_Witness ==
    /\ ready_state = TESTING
    /\ Lt(best_diff, Seed)
    /\ best_index > 0 /\ best_frequency > 0
    /\ \E i \in ScannedOffsets, j \in Targets : ~Lt(DiffOf(i, j), Seed)

\* C17: read_state and adc_value change only in the ADC step that opens a
\* loop iteration, read_state by at most one transition; the burst of an
\* iteration starts only after that step and the next ADC step only after
\* the burst; so every transmit of a burst passes the same value, the
\* adc_value of the last latch.
C17_OneAdcStepBeforeBurst ==
    [][/\ (read_state' # read_state \/ adc_value' # adc_value) =>
              (pc = "adc" /\ pc' = "switch")
       /\ read_state' \in {read_state, (read_state + 1) % 4}
       /\ pc = "adc" => pc' = "switch"
       /\ pc' = "burst" => pc \in {"switch", "burst"}
       /\ pc' = "adc" => pc = "burst"
       /\ sent' = sent + 1 =>
              /\ pc = "burst" /\ pc' = "burst"
              /\ tx_value' = adc_value /\ adc_value' = adc_value
              /\ sent > 0 => tx_value' = tx_value]_vars

\* C17 witness: the second transmit of a burst has passed the nonzero
\* sample that the ADC step of this iteration latched
C17_Witness ==
    /\ pc = "burst" /\ sent = 2
    /\ read_state = 0
    /\ tx_value = adc_value /\ tx_value # 0

\* C18: whenever a burst runs, executing the buffer from slot 0 runs exactly
\* index no-ops before the return word, which is what every transmit of the
\* burst has counted; and with the return word moved to any slot k the
\* execution runs exactly k no-ops, one more than for slot k - 1.
C18_DelayIsOffset ==
    pc = "burst" =>
        /\ Exec(opcodes) = index
        /\ sent > 0 => nops = index
        /\ \A k \in Slots : Exec(MoveReturn(opcodes, index, k)) = k
        /\ \A k \in Slots \ {0} :
              Exec(MoveReturn(opcodes, index, k)) > Exec(MoveReturn(opcodes, index, k - 1))

\* C18 witness: the measuring burst at the last measured offset is complete
\* and its transmits ran that many no-ops
C18_Witness ==
    /\ ready_state = MEASURING /\ pc = "burst"
    /\ sent = periods /\ sent > 0
    /\ index = measure_limit - 1 /\ index > 0
    /\ nops = index

\* C19: no slot of measurements[] is read before a MEASURING iteration wrote
\* it, neither in the evaluation loops nor at the hand-off to TESTING.
C19_ReadsAreWritten == unwritten_reads = {}

\* C20: index is always a slot of the arrays; during MEASURING it is below
\* measure_limit, so that the slot ++index names, which the hand-off also
\* reads, is a slot too; every stored measurement went to a slot; and after
\* the pass index is below measure_limit and best_frequency is an index of
\* the table.
C20_IndicesInRange ==
    /\ index \in Slots
    /\ ready_state = MEASURING => (index < measure_limit /\ NextOffset(index) \in Slots)
    /\ \A k \in 1..Len(mlog) : mlog[k].slot \in Slots
    /\ unwritten_reads \subseteq Slots
    /\ Evaluated =>
          /\ index < measure_limit
          /\ best_frequency \in 0 .. (frequencies_n - 1)

\* C20 witness: broadcasting at the last scanned offset with a target other
\* than the first, after the measurement at the last offset below
\* measure_limit
C20_Witness ==
    /\ ready_state = BROADCASTING
    /\ m_iters = measure_limit
    /\ index = ScanOffsets - 1
    /\ best_frequency > 0

====
